---- MODULE Spec2Model ----
(***************************************************************************)
(* Job-Application-Co-pilot: the App component's job collection, working   *)
(* resume and suggestion modal (src/App.tsx), the client services          *)
(* (src/services/geminiService.ts, src/services/apiService.ts) and the     *)
(* backend handlers they talk to (src/server.js, src/unnamed/part_003).    *)
(*                                                                         *)
(* Text is a sequence of one-character strings, so that trim() and         *)
(* String.prototype.replace() are computed and not assumed.                *)
(*                                                                         *)
(* Specifications:                                                         *)
(*   Spec        the App behind its JobCard controls, served by server.js  *)
(*   SpecClient  the same App, served by either backend or by another      *)
(*               party answering /api                                      *)
(*   SpecApply   the suggestion modal, from any resume and any suggestion  *)
(*   SpecStore   the resume store of apiService.ts and its backend         *)
(***************************************************************************)
EXTENDS Integers, Sequences, FiniteSets, TLC

VARIABLES
    jobs,             \* App: useState<Job[]>
    resume,           \* App: useState<string>, the working resume
    activeSuggestion, \* App: useState<ImprovementSuggestion | null>
    calls,            \* App: the async handlers suspended at their await
    nextId,           \* number of uuidv4() job ids drawn so far
    now,              \* the latest reading of the wall clock (new Date())
    backend,          \* which backend answers /api: fixed when the app is deployed
    limits,           \* the bound of this run on the user's operations
    used,             \* how many operations the user has made
    last,             \* history: the last handler step and what it received
    serverDb,         \* backend: the Resume collection (MongoDB)
    localSlot,        \* browser: localStorage[STORAGE_KEY]
    nextRid,          \* number of record ids drawn so far (uuidv4 / ObjectId)
    lastStore,        \* history: the last resume store call and its outcome
    sortKey,          \* JobListingsPage: useState<SortKey>
    sortDirection,    \* JobListingsPage: useState<SortDirection>
    env,              \* backend: process.env as the process was started
    server,           \* backend: how far the process has come, and what it served
    resumes,          \* ResumesPage: useState<SavedResume[]>
    deleting,         \* ResumesPage: the handleDelete calls suspended at their await
    pageLog           \* history: what the page listed first, and the ids whose delete resolved

appVars == <<jobs, resume, activeSuggestion, calls, nextId, now, backend, limits, used, last>>
storeVars == <<serverDb, localSlot, nextRid, lastStore>>
sortVars == <<sortKey, sortDirection>>
serverVars == <<env, server>>
pageVars == <<resumes, deleting, pageLog>>
vars == <<jobs, resume, activeSuggestion, calls, nextId, now, backend, limits, used, last,
          serverDb, localSlot, nextRid, lastStore, sortKey, sortDirection,
          env, server, resumes, deleting, pageLog>>

----------------------------------------------------------------------------
(* Bounds of the model.                                                    *)

MaxLen == 3         \* longest resume text typed by the user
MaxPat == 2         \* longest originalText of a suggestion
MaxRepl == 2        \* longest suggestedRewrite of a suggestion
MaxOps == 3         \* user operations on the App: adds, removals, edits, clicks
MaxTime == 2        \* last reading of the wall clock
MaxRecords == 3     \* resume record ids ever drawn, in the browser or the backend
MaxListed == 3      \* jobs in a collection put on display
MaxServed == 2      \* requests a backend process answers
MaxLiveOps == 2     \* user operations in the runs checked for progress
MaxDeletes == 3     \* clicks on Delete on the resumes page
MaxShown == 2       \* records the backend holds when the resumes page opens

----------------------------------------------------------------------------
(* Text.                                                                   *)

RECURSIVE TextsUpTo(_, _)
TextsUpTo(S, n) ==
    IF n = 0 THEN {<<>>}
    ELSE LET shorter == TextsUpTo(S, n - 1)
         IN  shorter \cup {Append(t, c) : t \in shorter, c \in S}

IsSpace(c) == c = " "

RECURSIVE TrimStart(_)
TrimStart(s) ==
    IF s # <<>> /\ IsSpace(Head(s)) THEN TrimStart(Tail(s)) ELSE s

RECURSIVE TrimEnd(_)
TrimEnd(s) ==
    IF s # <<>> /\ IsSpace(s[Len(s)]) THEN TrimEnd(SubSeq(s, 1, Len(s) - 1)) ELSE s

\* String.prototype.trim
Trim(s) == TrimEnd(TrimStart(s))

\* String.prototype.indexOf: the 0-based position of the first occurrence, or -1
IndexOf(s, pat) ==
    LET hits == {i \in 0..(Len(s) - Len(pat)) : SubSeq(s, i + 1, i + Len(pat)) = pat}
    IN  IF hits = {} THEN -1 ELSE CHOOSE i \in hits : \A j \in hits : i <= j

\* GetSubstitution of ECMAScript for a string pattern (no capture groups):
\* $$ is a dollar, $& the match, $` the text before it, $' the text after it;
\* every other character, a lone $ and $1..$9 included, stands for itself.
RECURSIVE GetSubstitution(_, _, _, _)
GetSubstitution(repl, matched, before, after) ==
    IF repl = <<>> THEN <<>>
    ELSE IF Head(repl) = "$" /\ Len(repl) >= 2 /\ repl[2] \in {"$", "&", "`", "'"}
         THEN LET rest == GetSubstitution(SubSeq(repl, 3, Len(repl)), matched, before, after)
              IN  CASE repl[2] = "$" -> <<"$">> \o rest
                    [] repl[2] = "&" -> matched \o rest
                    [] repl[2] = "`" -> before \o rest
                    [] repl[2] = "'" -> after \o rest
         ELSE <<Head(repl)>> \o GetSubstitution(Tail(repl), matched, before, after)

\* The mutant of JsReplace that appends the rewrite when the pattern is absent.
JsReplaceOrAppend(s, pat, repl) ==
    LET i == IndexOf(s, pat)
    IN  IF i = -1 THEN s \o repl
        ELSE LET before == SubSeq(s, 1, i)
                 after == SubSeq(s, i + Len(pat) + 1, Len(s))
             IN  before \o GetSubstitution(repl, pat, before, after) \o after

\* The mutant of JsReplace that puts the rewrite first when the pattern is absent.
JsReplaceOrPrepend(s, pat, repl) ==
    LET i == IndexOf(s, pat)
    IN  IF i = -1 THEN repl \o s
        ELSE LET before == SubSeq(s, 1, i)
                 after == SubSeq(s, i + Len(pat) + 1, Len(s))
             IN  before \o GetSubstitution(repl, pat, before, after) \o after

\* String.prototype.replace(pattern: string, replacement: string)
JsReplace(s, pat, repl) ==
    LET i == IndexOf(s, pat)
    IN  IF i = -1 THEN s
        ELSE LET before == SubSeq(s, 1, i)
                 after == SubSeq(s, i + Len(pat) + 1, Len(s))
             IN  before \o GetSubstitution(repl, pat, before, after) \o after

----------------------------------------------------------------------------
(* JavaScript values.                                                      *)

JsNull == [tag |-> "null"]
Str(s) == [tag |-> "string", s |-> s]

\* Job.analyzedAt is optional: the field is absent until the first analysis
Undefined == 0

\* The JSON documents that travel between the model service, proxy and client
Suggestion(orig, rewrite) == [originalText |-> orig, suggestedRewrite |-> rewrite]

Analysis1 ==
    [tag |-> "JobAnalysis", matchScore |-> 70,
     improvementSuggestions |-> <<Suggestion(<<"a">>, <<"b">>)>>]
Analysis2 ==
    [tag |-> "JobAnalysis", matchScore |-> 95,
     improvementSuggestions |-> <<Suggestion(<<"b">>, <<"$", "&">>)>>]

EmptyObject == [tag |-> "object"]                   \* {}
ErrorObject(msg) == [tag |-> "error", error |-> msg] \* { error: msg }
TextObject(t) == [tag |-> "text", text |-> t]        \* { text: t }
RawObject == [tag |-> "raw"]                         \* { raw: text }
AnalysisDoc(v) == [tag |-> "doc", result |-> v]      \* { id, ...created.toObject() }

----------------------------------------------------------------------------
(* HTTP as the client sees it: fetch() rejects, or resolves to a Response  *)
(* with a status and a body.                                               *)

JsonBody(v) == [kind |-> "json", value |-> v]
EmptyBody == [kind |-> "empty", value |-> JsNull]
NotJsonBody == [kind |-> "notjson", value |-> JsNull]

Response(status, body) == [net |-> TRUE, status |-> status, body |-> body]
NetworkFailure == [net |-> FALSE, status |-> 0, body |-> EmptyBody]

\* Response.ok
Ok(resp) == resp.status >= 200 /\ resp.status <= 299

\* Response.statusText
StatusText(status) ==
    CASE status = 400 -> "Bad Request"
      [] status = 404 -> "Not Found"
      [] status = 500 -> "Internal Server Error"
      [] status = 502 -> "Bad Gateway"
      [] OTHER -> "OK"

\* Response.text(): the body as sent
BodyText(body) ==
    CASE body.kind = "empty" -> ""
      [] body.kind = "notjson" -> "<!doctype html>"
      [] body.value.tag = "error" -> "{\"error\":\"" \o body.value.error \o "\"}"
      [] OTHER -> "{...}"

Returned(v) == [outcome |-> "return", value |-> v, message |-> ""]
Thrown(msg) == [outcome |-> "throw", value |-> JsNull, message |-> msg]

----------------------------------------------------------------------------
(* The backend proxy.  The model service answers a generateContent call    *)
(* with a text, with no text, or by throwing.                              *)

ModelThrows == [kind |-> "throw", text |-> <<>>, json |-> JsNull]
ModelNoText == [kind |-> "undefined", text |-> <<>>, json |-> JsNull]
\* a text; json is the document it parses to, JsNull when JSON.parse throws
ModelText(t, json) == [kind |-> "text", text |-> t, json |-> json]

\* response.text?.trim()
ModelTrimmed(m) == IF m.kind = "text" THEN Trim(m.text) ELSE <<>>

AnalyzeModelOutcomes ==
    {ModelThrows, ModelNoText, ModelText(<<" ">>, JsNull), ModelText(<<"?">>, JsNull),
     ModelText(<<"{", "1", "}">>, Analysis1), ModelText(<<" ", "{", "2", "}">>, Analysis2)}

\* app.post("/api/analyze") of server.js
ServerAnalyze(req, m) ==
    IF req.resume = <<>> \/ req.jobDescription = <<>>
    THEN Response(400, JsonBody(ErrorObject("Missing resume or jobDescription")))
    ELSE IF m.kind = "throw"
    THEN Response(500, JsonBody(ErrorObject("Failed to analyze job fit")))
    ELSE IF ModelTrimmed(m) = <<>>
    THEN Response(502, JsonBody(ErrorObject("Empty response from model")))
    ELSE IF m.json = JsNull
    THEN Response(500, JsonBody(ErrorObject("Failed to analyze job fit")))
    ELSE Response(200, JsonBody(m.json))

\* app.post("/api/analyze") of the backend with persistence (part_003);
\* persisted: JobAnalysis.create succeeded
ServerAnalyzePersisting(req, m, persisted) ==
    IF req.jobDescription = <<>>
    THEN Response(400, JsonBody(ErrorObject("Invalid request")))
    ELSE IF req.resume = <<>>
    THEN Response(400, JsonBody(ErrorObject("Either resumeId or resume text must be provided")))
    ELSE IF m.kind = "throw"
    THEN Response(500, JsonBody(ErrorObject("Failed to analyze job fit")))
    ELSE IF ModelTrimmed(m) = <<>>
    THEN Response(502, JsonBody(ErrorObject("Empty response from model")))
    ELSE LET parsed == IF m.json = JsNull THEN RawObject ELSE m.json
         IN  IF persisted THEN Response(200, JsonBody(AnalysisDoc(parsed)))
             ELSE Response(200, JsonBody(parsed))

FetchModelOutcomes ==
    {ModelThrows, ModelNoText, ModelText(<<" ">>, JsNull), ModelText(<<"j", " ">>, JsNull)}

\* app.post("/api/fetch-description"), the same in both backends
ServerFetchDescription(req, m) ==
    IF req.url = <<>>
    THEN Response(400, JsonBody(ErrorObject("Missing url")))
    ELSE IF m.kind = "throw"
    THEN Response(500, JsonBody(ErrorObject("Failed to fetch job description")))
    ELSE Response(200, JsonBody(TextObject(ModelTrimmed(m))))

----------------------------------------------------------------------------
(* The client services of geminiService.ts, on the settled fetch().        *)

\* handleResponse: {} for an empty body, the raw text when it is not JSON
handleResponse(resp) ==
    IF resp.body.kind = "empty" THEN EmptyObject
    ELSE IF resp.body.kind = "notjson" THEN Str(BodyText(resp.body))
    ELSE resp.body.value

analyzeJobFit(resp) ==
    IF ~resp.net THEN Thrown("Failed to fetch")
    ELSE IF ~Ok(resp)
    THEN Thrown("Failed to analyze job fit: " \o
                (IF BodyText(resp.body) # "" THEN BodyText(resp.body)
                 ELSE StatusText(resp.status)))
    ELSE Returned(handleResponse(resp))

fetchJobDescriptionFromUrl(resp) ==
    IF ~resp.net THEN Thrown("Failed to fetch")
    ELSE IF ~Ok(resp)
    THEN Thrown("Failed to fetch job description: " \o
                (IF BodyText(resp.body) # "" THEN BodyText(resp.body)
                 ELSE StatusText(resp.status)))
    ELSE IF resp.body.kind = "empty" THEN Thrown("Unexpected end of JSON input")
    ELSE IF resp.body.kind = "notjson" THEN Thrown("Unexpected token < in JSON")
    ELSE Returned(Str(Trim(IF resp.body.value.tag = "text" THEN resp.body.value.text
                           ELSE <<>>)))

----------------------------------------------------------------------------
(* The App component (src/App.tsx) behind its JobCard controls.            *)

templateResumeContent == <<"a", "b">>

UrlInputs == {<<>>, <<"u">>, <<" ">>}          \* typed into the url field
DescriptionInputs == {<<>>, <<" ">>, <<"d">>}  \* typed into the description
ResumeInputs == {<<" ">>, <<"a">>}             \* typed into the resume box

\* What a search or hiring.cafe listing carries
Listings == {[url |-> <<"u">>, title |-> "Engineer", company |-> "Acme",
              description |-> <<"c">>]}

FetchingText == <<"Fetching description...">>
FailedText == <<"Failed to fetch job description. Please paste it manually.">>

JobIds == 1..limits.ops

Positions(id) == {i \in DOMAIN jobs : jobs[i].id = id}
HasJob(id) == Positions(id) # {}
\* jobs.find(j => j.id === id)
JobOf(id) == jobs[CHOOSE i \in Positions(id) : TRUE]

\* { ...j, ...updates }
Merge(j, updates) ==
    [f \in DOMAIN j \cup DOMAIN updates |->
        IF f \in DOMAIN updates THEN updates[f] ELSE j[f]]

\* The mutant of handleUpdateJob that, finding no job with the id, updates every job.
handleUpdateJobOrAll(js, id, updates) ==
    [i \in DOMAIN js |->
        IF js[i].id = id \/ (\A k \in DOMAIN js : js[k].id # id)
        THEN Merge(js[i], updates) ELSE js[i]]

\* handleUpdateJob: jobs.map(j => (j.id === id ? { ...j, ...updates } : j))
handleUpdateJob(js, id, updates) ==
    [i \in DOMAIN js |-> IF js[i].id = id THEN Merge(js[i], updates) ELSE js[i]]

\* history record of a step of the App: the operation, the job id it is about,
\* what the handler had captured, the response it received and what the
\* service function made of it
Step(op, id, arg, resp, result) ==
    [op |-> op, id |-> id, arg |-> arg, resp |-> resp, result |-> result]
NoResponse == [net |-> FALSE, status |-> -1, body |-> EmptyBody]
NoResult == [outcome |-> "none", value |-> JsNull, message |-> ""]
\* a step that received nothing from a service
Plain(op, id) == Step(op, id, JsNull, NoResponse, NoResult)
\* a step the history keeps no detail of
Quiet == Plain("step", 0)

\* the smallest call number not in use
FreshCall == CHOOSE n \in 1..(Cardinality(calls) + 1) : n \notin {c.cid : c \in calls}

\* an async handler suspended at its await, with what its closure captured
Suspended(kind, id, job) ==
    [cid |-> FreshCall, kind |-> kind, id |-> id, job |-> job, resume |-> resume]

\* The mutant of NewJob that takes the id of the job at the head.
NewJobWithHeadId(id) ==
    [id |-> IF jobs = <<>> THEN id ELSE jobs[1].id, url |-> <<>>,
     title |-> "New Job Listing", company |-> "Company Name",
     description |-> <<>>, isFetching |-> FALSE, isLoading |-> FALSE,
     error |-> JsNull, analysis |-> JsNull, analyzedAt |-> Undefined]

\* what a fresh Job holds (handleAddJob)
NewJob(id) ==
    [id |-> id, url |-> <<>>, title |-> "New Job Listing", company |-> "Company Name",
     description |-> <<>>, isFetching |-> FALSE, isLoading |-> FALSE,
     error |-> JsNull, analysis |-> JsNull, analyzedAt |-> Undefined]

handleAddJob ==
    /\ used < limits.ops
    /\ used' = used + 1
    /\ jobs' = <<NewJob(nextId + 1)>> \o jobs
    /\ nextId' = nextId + 1
    /\ last' = Quiet
    /\ UNCHANGED <<resume, activeSuggestion, calls, now, backend, limits, storeVars, sortVars, serverVars, pageVars>>

handleAddJobFromSearch(listing) ==
    /\ used < limits.ops
    /\ LET newJob == [NewJob(nextId + 1) EXCEPT
                         !.url = listing.url, !.title = listing.title,
                         !.company = listing.company,
                         !.description = FetchingText, !.isFetching = TRUE]
       IN  /\ jobs' = <<newJob>> \o jobs
           /\ calls' = calls \cup {Suspended("import", newJob.id, newJob)}
    /\ nextId' = nextId + 1
    /\ used' = used + 1
    /\ last' = Quiet
    /\ UNCHANGED <<resume, activeSuggestion, now, backend, limits, storeVars, sortVars, serverVars, pageVars>>

handleAddJobFromCafe(listing) ==
    /\ used < limits.ops
    /\ used' = used + 1
    /\ jobs' = <<[NewJob(nextId + 1) EXCEPT
                     !.url = listing.url, !.title = listing.title,
                     !.company = listing.company,
                     !.description = listing.description]>> \o jobs
    /\ nextId' = nextId + 1
    /\ last' = Quiet
    /\ UNCHANGED <<resume, activeSuggestion, calls, now, backend, limits, storeVars, sortVars, serverVars, pageVars>>

\* jobs.filter(j => j.id !== id)
handleRemoveJob(id) ==
    /\ HasJob(id)
    /\ jobs' = SelectSeq(jobs, LAMBDA j : j.id # id)
    /\ used < limits.ops
    /\ used' = used + 1
    /\ last' = Quiet
    /\ UNCHANGED <<resume, activeSuggestion, calls, nextId, now, backend, limits, storeVars, sortVars, serverVars, pageVars>>

\* JobCard: the url input's onChange
EditUrl(id, text) ==
    /\ HasJob(id)
    /\ JobOf(id).url # text
    /\ jobs' = handleUpdateJob(jobs, id, [url |-> text])
    /\ used < limits.ops
    /\ used' = used + 1
    /\ last' = Quiet
    /\ UNCHANGED <<resume, activeSuggestion, calls, nextId, now, backend, limits, storeVars, sortVars, serverVars, pageVars>>

\* JobCard: the description textarea's onChange
EditDescription(id, text) ==
    /\ HasJob(id)
    /\ JobOf(id).description # text
    /\ jobs' = handleUpdateJob(jobs, id, [description |-> text])
    /\ used < limits.ops
    /\ used' = used + 1
    /\ last' = Quiet
    /\ UNCHANGED <<resume, activeSuggestion, calls, nextId, now, backend, limits, storeVars, sortVars, serverVars, pageVars>>

\* ResumeInput: setResume
EditResume(text) ==
    /\ resume # text
    /\ resume' = text
    /\ used < limits.ops
    /\ used' = used + 1
    /\ last' = Quiet
    /\ UNCHANGED <<jobs, activeSuggestion, calls, nextId, now, backend, limits, storeVars, sortVars, serverVars, pageVars>>

\* JobCard.isValidUrl: new URL() accepts the text, with https:// put before it
isValidUrl(url) == url # <<>> /\ \A i \in DOMAIN url : ~IsSpace(url[i])

\* The mutant of FetchDisabled that holds the button while any job is fetching.
FetchDisabledWhileAnyFetching(job) ==
    \/ job.url = <<>> \/ ~isValidUrl(job.url)
    \/ \E i \in DOMAIN jobs : jobs[i].isFetching

\* JobCard: disabled of the Fetch button
FetchDisabled(job) == job.url = <<>> \/ ~isValidUrl(job.url) \/ job.isFetching

\* JobListingsPage: isAnalyzeDisabled
isAnalyzeDisabled(job) == Trim(resume) = <<>> \/ Trim(job.description) = <<>>

\* The mutant of AnalyzeDisabled that leaves the button enabled while loading.
AnalyzeDisabledOnInputsOnly(job) == isAnalyzeDisabled(job)

\* JobCard: disabled of the Analyze button
AnalyzeDisabled(job) == isAnalyzeDisabled(job) \/ job.isLoading

\* handleFetchDescription up to its await
handleFetchDescription(id) ==
    IF ~HasJob(id) \/ JobOf(id).url = <<>>
    THEN /\ last' = Plain("fetchSkipped", id)
         /\ UNCHANGED <<jobs, resume, activeSuggestion, calls, nextId, now, used, backend, limits, storeVars, sortVars, serverVars, pageVars>>
    ELSE /\ jobs' = handleUpdateJob(jobs, id, [isFetching |-> TRUE, error |-> JsNull])
         /\ calls' = calls \cup {Suspended("fetch", id, JobOf(id))}
         /\ used' = used + 1
         /\ last' = Quiet
         /\ UNCHANGED <<resume, activeSuggestion, nextId, now, backend, limits, storeVars, sortVars, serverVars, pageVars>>

\* The mutant of handleAnalyzeJob that does not look at the two texts.
handleAnalyzeJobUnchecked(id) ==
    IF ~HasJob(id)
    THEN /\ last' = Plain("analyzeSkipped", id)
         /\ UNCHANGED <<jobs, resume, activeSuggestion, calls, nextId, now, used, backend, limits, storeVars, sortVars, serverVars, pageVars>>
    ELSE /\ jobs' = handleUpdateJob(jobs, id, [isLoading |-> TRUE, error |-> JsNull])
         /\ calls' = calls \cup {Suspended("analyze", id, JobOf(id))}
         /\ used' = used + 1
         /\ last' = Quiet
         /\ UNCHANGED <<resume, activeSuggestion, nextId, now, backend, limits, storeVars, sortVars, serverVars, pageVars>>

\* handleAnalyzeJob up to its await
handleAnalyzeJob(id) ==
    IF ~HasJob(id) \/ Trim(resume) = <<>> \/ Trim(JobOf(id).description) = <<>>
    THEN /\ last' = Plain("analyzeSkipped", id)
         /\ UNCHANGED <<jobs, resume, activeSuggestion, calls, nextId, now, used, backend, limits, storeVars, sortVars, serverVars, pageVars>>
    ELSE /\ jobs' = handleUpdateJob(jobs, id, [isLoading |-> TRUE, error |-> JsNull])
         /\ calls' = calls \cup {Suspended("analyze", id, JobOf(id))}
         /\ used' = used + 1
         /\ last' = Quiet
         /\ UNCHANGED <<resume, activeSuggestion, nextId, now, backend, limits, storeVars, sortVars, serverVars, pageVars>>

\* JobCard: a click on Fetch
ClickFetch(id) ==
    /\ HasJob(id)
    /\ ~FetchDisabled(JobOf(id))
    /\ used < limits.ops
    /\ handleFetchDescription(id)

\* JobCard: a click on Analyze Match
ClickAnalyze(id) ==
    /\ HasJob(id)
    /\ ~AnalyzeDisabled(JobOf(id))
    /\ used < limits.ops
    /\ handleAnalyzeJob(id)

\* What fetch("/api/analyze") can settle with: a rejection, the answer of either
\* backend to the request sent, or the answer of whatever else serves the path
OtherAnalyzeResponses ==
    {Response(200, EmptyBody), Response(200, NotJsonBody), Response(502, EmptyBody)}

AnalyzeResponses(c) ==
    LET req == [resume |-> c.resume, jobDescription |-> c.job.description]
    IN  {NetworkFailure} \cup
        CASE backend = "server.js" ->
                {ServerAnalyze(req, m) : m \in AnalyzeModelOutcomes}
          [] backend = "part_003" ->
                {ServerAnalyzePersisting(req, m, p) :
                    m \in AnalyzeModelOutcomes, p \in BOOLEAN}
          [] OTHER -> OtherAnalyzeResponses

OtherFetchResponses ==
    {Response(200, EmptyBody), Response(200, NotJsonBody),
     Response(200, JsonBody(EmptyObject)), Response(502, EmptyBody)}

FetchResponses(c) ==
    {NetworkFailure} \cup
    IF backend \in {"server.js", "part_003"}
    THEN {ServerFetchDescription([url |-> c.job.url], m) : m \in FetchModelOutcomes}
    ELSE OtherFetchResponses

\* The mutant of AnalyzeSuccessUpdates that writes back the job the handler found.
AnalyzeSuccessUpdatesOverJobFound(job, result, date) ==
    [analysis |-> result, isLoading |-> FALSE, analyzedAt |-> date,
     url |-> job.url, description |-> job.description]

\* The mutant of AnalyzeSuccessUpdates that keeps an analysis the job already has.
AnalyzeSuccessUpdatesKeepingFirst(job, result, date) ==
    [analysis |-> IF job.analysis = JsNull THEN result ELSE job.analysis,
     isLoading |-> FALSE, analyzedAt |-> date]

\* handleAnalyzeJob: what the try block writes once analyzeJobFit has resolved;
\* job is the job the handler found before its await
AnalyzeSuccessUpdates(job, result, date) ==
    [analysis |-> result, isLoading |-> FALSE, analyzedAt |-> date]

\* The mutant of AnalyzeFailureUpdates that also drops the analysis.
AnalyzeFailureUpdatesDroppingAnalysis(message) ==
    [error |-> Str(message), isLoading |-> FALSE, analysis |-> JsNull]

\* The mutant of AnalyzeFailureUpdates that leaves the job loading.
AnalyzeFailureUpdatesStillLoading(message) == [error |-> Str(message)]

\* handleAnalyzeJob: what the catch block writes
AnalyzeFailureUpdates(message) == [error |-> Str(message), isLoading |-> FALSE]

\* The mutant of FetchFailureUpdates that also clears the description.
FetchFailureUpdatesClearing(message) ==
    [error |-> Str(message), isFetching |-> FALSE, description |-> <<>>]

\* The mutant of FetchFailureUpdates that leaves the job fetching.
FetchFailureUpdatesStillFetching(message) == [error |-> Str(message)]

\* handleFetchDescription: what the catch block writes
FetchFailureUpdates(message) == [error |-> Str(message), isFetching |-> FALSE]

\* handleAnalyzeJob from its await on: the try's continuation or the catch
handleAnalyzeJobSettled(c, resp, date) ==
    /\ c \in calls /\ c.kind = "analyze"
    /\ LET result == analyzeJobFit(resp)
       IN  /\ jobs' = IF result.outcome = "return"
                      THEN handleUpdateJob(jobs, c.id,
                               AnalyzeSuccessUpdates(c.job, result.value, date))
                      ELSE handleUpdateJob(jobs, c.id, AnalyzeFailureUpdates(result.message))
           /\ now' = IF result.outcome = "return" THEN date ELSE now
           /\ last' = Step("analyzeSettled", c.id, c.job, resp, result)
    /\ calls' = calls \ {c}
    /\ UNCHANGED <<resume, activeSuggestion, nextId, used, backend, limits, storeVars, sortVars, serverVars, pageVars>>

\* The mutant of handleFetchDescriptionSettled that sends the request again
\* when the call has failed.
handleFetchDescriptionSettledRetrying(c, resp) ==
    /\ c \in calls /\ c.kind = "fetch"
    /\ LET result == fetchJobDescriptionFromUrl(resp)
       IN  /\ jobs' = IF result.outcome = "return"
                      THEN handleUpdateJob(jobs, c.id,
                               [description |-> result.value.s, isFetching |-> FALSE])
                      ELSE jobs
           /\ calls' = IF result.outcome = "return"
                       THEN calls \ {c}
                       ELSE (calls \ {c}) \cup {Suspended("fetch", c.id, c.job)}
           /\ last' = Step("fetchSettled", c.id,
                           [job |-> c.job,
                            before |-> IF HasJob(c.id) THEN Str(JobOf(c.id).description)
                                       ELSE JsNull],
                           resp, result)
    /\ UNCHANGED <<resume, activeSuggestion, nextId, now, used, backend, limits, storeVars, sortVars, serverVars, pageVars>>

\* handleFetchDescription from its await on
handleFetchDescriptionSettled(c, resp) ==
    /\ c \in calls /\ c.kind = "fetch"
    /\ LET result == fetchJobDescriptionFromUrl(resp)
       IN  /\ jobs' = IF result.outcome = "return"
                      THEN handleUpdateJob(jobs, c.id,
                               [description |-> result.value.s, isFetching |-> FALSE])
                      ELSE handleUpdateJob(jobs, c.id, FetchFailureUpdates(result.message))
           /\ last' = Step("fetchSettled", c.id,
                           [job |-> c.job,
                            before |-> IF HasJob(c.id) THEN Str(JobOf(c.id).description)
                                       ELSE JsNull],
                           resp, result)
    /\ calls' = calls \ {c}
    /\ UNCHANGED <<resume, activeSuggestion, nextId, now, used, backend, limits, storeVars, sortVars, serverVars, pageVars>>

\* the async block of handleAddJobFromSearch from its await on
handleAddJobFromSearchSettled(c, resp) ==
    /\ c \in calls /\ c.kind = "import"
    /\ LET result == fetchJobDescriptionFromUrl(resp)
       IN  /\ jobs' = IF result.outcome = "return"
                      THEN handleUpdateJob(jobs, c.id,
                               [description |-> result.value.s, isFetching |-> FALSE])
                      ELSE handleUpdateJob(jobs, c.id,
                               [error |-> Str(result.message), isFetching |-> FALSE,
                                description |-> FailedText])
           /\ last' = Step("importSettled", c.id, c.job, resp, result)
    /\ calls' = calls \ {c}
    /\ UNCHANGED <<resume, activeSuggestion, nextId, now, used, backend, limits, storeVars, sortVars, serverVars, pageVars>>

\* SuggestionModal: Accept Change
handleApplySuggestion ==
    /\ activeSuggestion # JsNull
    /\ resume' = JsReplace(resume, activeSuggestion.originalText,
                           activeSuggestion.suggestedRewrite)
    /\ activeSuggestion' = JsNull
    /\ last' = Step("applySuggestion", 0,
                    [resume |-> resume, suggestion |-> activeSuggestion],
                    NoResponse, NoResult)
    /\ UNCHANGED <<jobs, calls, nextId, now, used, backend, limits, storeVars, sortVars, serverVars, pageVars>>

\* The mutant of CloseSuggestion that applies the suggestion it closes.
CloseSuggestionApplying ==
    /\ activeSuggestion # JsNull
    /\ resume' = JsReplace(resume, activeSuggestion.originalText,
                           activeSuggestion.suggestedRewrite)
    /\ activeSuggestion' = JsNull
    /\ last' = Quiet
    /\ UNCHANGED <<jobs, calls, nextId, now, used, backend, limits, storeVars, sortVars, serverVars, pageVars>>

\* SuggestionModal: Reject, the close button, Escape, a click outside
CloseSuggestion ==
    /\ activeSuggestion # JsNull
    /\ activeSuggestion' = JsNull
    /\ last' = Quiet
    /\ UNCHANGED <<jobs, resume, calls, nextId, now, used, backend, limits, storeVars, sortVars, serverVars, pageVars>>

----------------------------------------------------------------------------
(* The backend process from the moment node loads the module: server.js,   *)
(* and part_003, which also connects to MongoDB.                           *)

\* process.env.X of a variable that is not set
Unset == [tag |-> "undefined"]

\* !!v for the values an environment variable can have
EnvTruthy(v) == v # Unset /\ v # Str("")

\* a || b
JsOr(a, b) == IF EnvTruthy(a) THEN a ELSE b

KeyValues == {Unset, Str(""), Str("k")}
UriValues == {Unset, Str(""), Str("mongodb://db")}

\* The mutant of ApiKeyOf that reads GEMINI_API_KEY only.
ApiKeyOfGeminiOnly(e) == e.GEMINI_API_KEY

\* const API_KEY = process.env.GEMINI_API_KEY || process.env.API_KEY
ApiKeyOf(e) == JsOr(e.GEMINI_API_KEY, e.API_KEY)

\* part_003: if (MONGODB_URI) mongoose.connect(...).then().catch(), else a warning
ConnectMongo ==
    /\ backend = "part_003"
    /\ server.pc = "start"
    /\ server' = [server EXCEPT !.pc = "models",
                                !.db = IF EnvTruthy(env.MONGODB_URI)
                                       THEN "connecting" ELSE "none"]
    /\ UNCHANGED <<env, appVars, storeVars, sortVars, pageVars>>

\* if (!API_KEY) { console.error(...); process.exit(1); }
CheckApiKey ==
    /\ server.pc = (IF backend = "part_003" THEN "models" ELSE "start")
    /\ server' = [server EXCEPT !.pc = IF ~EnvTruthy(ApiKeyOf(env))
                                       THEN "exited" ELSE "configured"]
    /\ UNCHANGED <<env, appVars, storeVars, sortVars, pageVars>>

\* app.listen(port, ...), after the routes are registered
Listen ==
    /\ server.pc = "configured"
    /\ server' = [server EXCEPT !.pc = "listening"]
    /\ UNCHANGED <<env, appVars, storeVars, sortVars, pageVars>>

\* the promise of mongoose.connect settles, once the module has run: the
\* .then logs, the .catch logs
MongoSettles(connected) ==
    /\ server.pc = "listening"
    /\ server.db = "connecting"
    /\ server' = [server EXCEPT !.db = IF connected THEN "connected" ELSE "failed"]
    /\ UNCHANGED <<env, appVars, storeVars, sortVars, pageVars>>

\* a request to any route is answered by the listening process
ServeRequest ==
    /\ server.pc = "listening"
    /\ server.served < MaxServed
    /\ server' = [server EXCEPT !.served = @ + 1]
    /\ UNCHANGED <<env, appVars, storeVars, sortVars, pageVars>>

\* a backend that was started with a key and is listening
ServerUp ==
    /\ env = [GEMINI_API_KEY |-> Str("k"), API_KEY |-> Unset, MONGODB_URI |-> Unset]
    /\ server = [pc |-> "listening", db |-> "none", served |-> 0]

\* no ResumesPage on display
PageClosed ==
    /\ resumes = <<>>
    /\ deleting = {}
    /\ pageLog = [mounted |-> FALSE, listed |-> <<>>, deleted |-> {}, clicks |-> 0]

StoreIdle ==
    /\ serverDb = <<>>
    /\ localSlot = JsNull
    /\ nextRid = 0
    /\ lastStore = JsNull

\* JobListingsPage as constructed: sorted by analyzedAt, descending
SortInit ==
    /\ sortKey = "analyzedAt"
    /\ sortDirection = "desc"

\* the App as constructed, before any event
AppInit ==
    /\ SortInit
    /\ jobs = <<>>
    /\ resume = templateResumeContent
    /\ activeSuggestion = JsNull
    /\ calls = {}
    /\ nextId = 0
    /\ now = 1
    /\ used = 0
    /\ last = Quiet

\* the App served by the proxy of server.js
Init ==
    /\ AppInit
    /\ backend = "server.js"
    /\ limits = [ops |-> MaxOps]
    /\ StoreIdle
    /\ ServerUp
    /\ PageClosed

Next ==
    \/ handleAddJob
    \/ \E l \in Listings : handleAddJobFromSearch(l)
    \/ \E l \in Listings : handleAddJobFromCafe(l)
    \/ \E id \in JobIds : handleRemoveJob(id)
    \/ \E id \in JobIds, t \in UrlInputs : EditUrl(id, t)
    \/ \E id \in JobIds, t \in DescriptionInputs : EditDescription(id, t)
    \/ \E t \in ResumeInputs : EditResume(t)
    \/ \E id \in JobIds : ClickFetch(id)
    \/ \E id \in JobIds : ClickAnalyze(id)
    \/ \E c \in calls : \E r \in AnalyzeResponses(c) : \E date \in now..MaxTime :
          handleAnalyzeJobSettled(c, r, date)
    \/ \E c \in calls : \E r \in FetchResponses(c) : handleFetchDescriptionSettled(c, r)
    \/ \E c \in calls : \E r \in FetchResponses(c) : handleAddJobFromSearchSettled(c, r)

Spec == Init /\ [][Next]_vars

\* the App served by either backend, or by whatever else answers the path
InitClient ==
    /\ AppInit
    /\ backend \in {"server.js", "part_003", "other"}
    /\ limits = [ops |-> MaxOps]
    /\ StoreIdle
    /\ ServerUp
    /\ PageClosed

SpecClient == InitClient /\ [][Next]_vars

----------------------------------------------------------------------------
(* The App's handlers called directly, as any component holding the props  *)
(* may call them: the guards are the handlers' own, not the buttons'.      *)

\* onFetchDescription(id)
CallFetch(id) ==
    /\ used < limits.ops
    /\ handleFetchDescription(id)

\* onAnalyzeJob(id)
CallAnalyze(id) ==
    /\ used < limits.ops
    /\ handleAnalyzeJob(id)

NextHandlers ==
    \/ handleAddJob
    \/ \E l \in Listings : handleAddJobFromSearch(l)
    \/ \E l \in Listings : handleAddJobFromCafe(l)
    \/ \E id \in JobIds : handleRemoveJob(id)
    \/ \E id \in JobIds, t \in UrlInputs : EditUrl(id, t)
    \/ \E id \in JobIds, t \in DescriptionInputs : EditDescription(id, t)
    \/ \E t \in ResumeInputs : EditResume(t)
    \/ \E id \in JobIds : CallFetch(id)
    \/ \E id \in JobIds : CallAnalyze(id)
    \/ \E c \in calls : \E r \in AnalyzeResponses(c) : \E date \in now..MaxTime :
          handleAnalyzeJobSettled(c, r, date)
    \/ \E c \in calls : \E r \in FetchResponses(c) : handleFetchDescriptionSettled(c, r)
    \/ \E c \in calls : \E r \in FetchResponses(c) : handleAddJobFromSearchSettled(c, r)

SpecHandlers == Init /\ [][NextHandlers]_vars

\* the step in which the await of the call numbered n resumes, whichever way
\* its fetch() has settled: only the continuation of a handler takes its call
\* out of the outstanding ones
SettleCall(n) == \E c \in calls : c.cid = n /\ calls' = calls \ {c}

\* every upstream call is answered or fails: no await is suspended for ever
EveryCallSettles == \A n \in 1..(MaxLiveOps + 1) : WF_calls(SettleCall(n))

\* the handlers called directly, over a network that settles every request
InitLive ==
    /\ AppInit
    /\ backend = "server.js"
    /\ limits = [ops |-> MaxLiveOps]
    /\ StoreIdle
    /\ ServerUp
    /\ PageClosed

SpecLive == InitLive /\ [][NextHandlers]_vars /\ EveryCallSettles

----------------------------------------------------------------------------
(* The suggestion modal on its own: any working resume, any suggestion the *)
(* model service may have written, one decision per run.                   *)

ResumeAlphabet == {"a", "b"}
RewriteAlphabet == {"b", "$", "&"}

SuggestionInputs ==
    {Suggestion(o, r) : o \in TextsUpTo(ResumeAlphabet, MaxPat),
                        r \in TextsUpTo(RewriteAlphabet, MaxRepl)}

\* MatchResult: Review & Apply, with the modal closed
OpenSuggestion(suggestion) ==
    /\ activeSuggestion = JsNull
    /\ used < limits.ops
    /\ used' = used + 1
    /\ activeSuggestion' = suggestion
    /\ last' = Quiet
    /\ UNCHANGED <<jobs, resume, calls, nextId, now, backend, limits, storeVars, sortVars, serverVars, pageVars>>

InitApply ==
    /\ SortInit
    /\ jobs = <<>>
    /\ resume \in TextsUpTo(ResumeAlphabet, MaxLen)
    /\ activeSuggestion = JsNull
    /\ calls = {}
    /\ nextId = 0
    /\ now = 1
    /\ used = 0
    /\ last = Quiet
    /\ backend = "server.js"
    /\ limits = [ops |-> 1]
    /\ StoreIdle
    /\ ServerUp
    /\ PageClosed

NextApply ==
    \/ \E s \in SuggestionInputs : OpenSuggestion(s)
    \/ handleApplySuggestion
    \/ CloseSuggestion

SpecApply == InitApply /\ [][NextApply]_vars

\* MatchResult: Review & Apply on the suggestion accepted last, which the
\* analysis still lists; once per run
ReopenSuggestion ==
    /\ activeSuggestion = JsNull
    /\ last.op = "applySuggestion"
    /\ used < limits.ops + 1
    /\ used' = used + 1
    /\ activeSuggestion' = last.arg.suggestion
    /\ UNCHANGED <<jobs, resume, calls, nextId, now, backend, limits, last, storeVars, sortVars, serverVars, pageVars>>

NextReapply ==
    \/ \E s \in SuggestionInputs : OpenSuggestion(s)
    \/ handleApplySuggestion
    \/ CloseSuggestion
    \/ ReopenSuggestion

\* the suggestion modal, with the accepted suggestion selected a second time
SpecReapply == InitApply /\ [][NextReapply]_vars

----------------------------------------------------------------------------
(* The whole App: the job handlers, the suggestions of the analyses on     *)
(* display, and the Load button of the resumes page.                       *)

\* the content of a saved resume
LoadInputs == {<<"s">>}

\* handleLoadResume: ResumesPage's Load button
handleLoadResume(content) ==
    /\ used < limits.ops
    /\ used' = used + 1
    /\ resume' = content
    /\ last' = Quiet
    /\ UNCHANGED <<jobs, activeSuggestion, calls, nextId, now, backend, limits, storeVars, sortVars, serverVars, pageVars>>

\* the suggestions listed under the analyses of the jobs
ListedSuggestions ==
    UNION {{jobs[i].analysis.improvementSuggestions[k] :
                k \in DOMAIN jobs[i].analysis.improvementSuggestions} :
           i \in {j \in DOMAIN jobs : jobs[j].analysis # JsNull}}

NextApp ==
    \/ Next
    \/ \E content \in LoadInputs : handleLoadResume(content)
    \/ \E s \in ListedSuggestions : OpenSuggestion(s)
    \/ handleApplySuggestion
    \/ CloseSuggestion

SpecApp == Init /\ [][NextApp]_vars

----------------------------------------------------------------------------
(* The resume store: apiService.ts in the browser, with localStorage as    *)
(* its fallback, and the /api/resumes handlers of the backend (part_003).  *)

NameInputs == {"A", "B"}

\* the ids a caller may pass: those drawn so far, and one that never is drawn
\* (a uuid or ObjectId cannot be passed before it exists)
RecordIds == (1..nextRid) \cup {MaxRecords + 1}

\* a SavedResume; ids are drawn in the order of creation, so savedAt is the
\* ordinal of the id
SavedResume(id, name) == [id |-> id, name |-> name, savedAt |-> id]

\* localStorage[STORAGE_KEY] holding a JSON array
Cache(items) == [tag |-> "list", items |-> items]

IdsOf(items) == {items[i].id : i \in DOMAIN items}

\* The mutant of SortBySavedAtDesc that returns the records as stored.
InStoredOrder(items) == items

\* items.sort((a, b) => time(b.savedAt) - time(a.savedAt)), and .sort({ savedAt: -1 })
RECURSIVE SortBySavedAtDesc(_)
SortBySavedAtDesc(items) ==
    IF items = <<>> THEN <<>>
    ELSE LET i == CHOOSE k \in DOMAIN items :
                      /\ \A j \in DOMAIN items : items[k].savedAt >= items[j].savedAt
                      /\ \A j \in 1..(k - 1) : items[j].savedAt < items[k].savedAt
         IN  <<items[i]>> \o
             SortBySavedAtDesc(SubSeq(items, 1, i - 1) \o SubSeq(items, i + 1, Len(items)))

\* seedInitialData: the slot after it, given the number of ids drawn so far
seedInitialData(rid) == Cache(<<SavedResume(rid + 1, "General Resume Template")>>)

\* The mutant of readLocalResumes that seeds an emptied cache again.
readLocalResumesSeedingEmpty(slot, rid) ==
    IF slot = JsNull \/ slot = Cache(<<>>)
    THEN [items |-> seedInitialData(rid).items, slot |-> seedInitialData(rid), rid |-> rid + 1]
    ELSE [items |-> slot.items, slot |-> slot, rid |-> rid]

\* readLocalResumes: the array read, the slot and the number of ids drawn after
\* it; an empty slot is seeded first
readLocalResumes(slot, rid) ==
    IF slot = JsNull
    THEN [items |-> seedInitialData(rid).items, slot |-> seedInitialData(rid), rid |-> rid + 1]
    ELSE [items |-> slot.items, slot |-> slot, rid |-> rid]

\* How a request to /api/resumes ends: fetch() rejects; the backend runs with
\* no Resume model; the database call throws; the handler is served
RemoteModes == {"unreachable", "nomodel", "dbthrow", "served"}

Answer(status, value, db) == [net |-> TRUE, status |-> status, value |-> value, db |-> db]
Rejected(db) == [net |-> FALSE, status |-> 0, value |-> JsNull, db |-> db]

\* app.get('/api/resumes')
ServerListResumes(db, mode) ==
    IF mode = "nomodel" \/ mode = "dbthrow"
    THEN Answer(500, JsNull, db)
    ELSE Answer(200, Cache(SortBySavedAtDesc(db)), db)

\* app.post('/api/resumes')
ServerCreateResume(db, name, rid, mode) ==
    IF mode = "nomodel" THEN Answer(500, JsNull, db)
    ELSE IF mode = "dbthrow" THEN Answer(400, JsNull, db)
    ELSE Answer(201, SavedResume(rid + 1, name), Append(db, SavedResume(rid + 1, name)))

\* app.put('/api/resumes/:id')
ServerUpdateResume(db, id, name, mode) ==
    IF mode = "nomodel" THEN Answer(500, JsNull, db)
    ELSE IF mode = "dbthrow" THEN Answer(400, JsNull, db)
    ELSE IF id \notin IdsOf(db) THEN Answer(404, JsNull, db)
    ELSE LET i == CHOOSE k \in DOMAIN db : db[k].id = id
         IN  Answer(200, [db[i] EXCEPT !.name = name], [db EXCEPT ![i].name = name])

\* app.delete('/api/resumes/:id')
ServerDeleteResume(db, id, mode) ==
    IF mode = "nomodel" \/ mode = "dbthrow" THEN Answer(500, JsNull, db)
    ELSE IF id \notin IdsOf(db) THEN Answer(404, JsNull, db)
    ELSE Answer(200, [tag |-> "success"], SelectSeq(db, LAMBDA r : r.id # id))

\* tryFetchJson resolves: the request was answered with a 2xx status
tryFetchJson(answer) == answer.net /\ answer.status >= 200 /\ answer.status <= 299

\* history record of a call of the store
StoreCall(op, id, name, answer, outcome, value) ==
    [op |-> op, id |-> id, name |-> name, net |-> answer.net, status |-> answer.status,
     outcome |-> outcome, value |-> value, slotBefore |-> localSlot, dbBefore |-> serverDb]

getResumes(mode) ==
    LET answer == IF mode = "unreachable" THEN Rejected(serverDb)
                  ELSE ServerListResumes(serverDb, mode)
        local == readLocalResumes(localSlot, nextRid)
    IN  /\ IF tryFetchJson(answer)
           THEN /\ lastStore' = StoreCall("getResumes", 0, "", answer, "return", answer.value)
                /\ UNCHANGED <<localSlot, nextRid>>
           ELSE /\ localSlot' = local.slot
                /\ nextRid' = local.rid
                /\ lastStore' = StoreCall("getResumes", 0, "", answer, "return",
                                          Cache(SortBySavedAtDesc(local.items)))
        /\ nextRid' <= MaxRecords
        /\ serverDb' = answer.db
        /\ UNCHANGED <<appVars, sortVars, serverVars>>

saveResume(name, mode) ==
    LET answer == IF mode = "unreachable" THEN Rejected(serverDb)
                  ELSE ServerCreateResume(serverDb, name, nextRid, mode)
        local == readLocalResumes(localSlot, nextRid)
        newResume == SavedResume(local.rid + 1, name)
    IN  /\ IF tryFetchJson(answer)
           THEN /\ nextRid' = nextRid + 1
                /\ lastStore' = StoreCall("saveResume", answer.value.id, name, answer,
                                          "return", answer.value)
                /\ UNCHANGED localSlot
           ELSE /\ localSlot' = Cache(<<newResume>> \o local.items)
                /\ nextRid' = local.rid + 1
                /\ lastStore' = StoreCall("saveResume", newResume.id, name, answer,
                                          "return", newResume)
        /\ nextRid' <= MaxRecords
        /\ serverDb' = answer.db
        /\ UNCHANGED <<appVars, sortVars, serverVars>>

deleteResume(id, mode) ==
    LET answer == IF mode = "unreachable" THEN Rejected(serverDb)
                  ELSE ServerDeleteResume(serverDb, id, mode)
        local == readLocalResumes(localSlot, nextRid)
        updated == SelectSeq(local.items, LAMBDA r : r.id # id)
    IN  /\ IF answer.net
           THEN /\ lastStore' = StoreCall("deleteResume", id, "", answer, "return",
                                          [tag |-> "success"])
                /\ UNCHANGED <<localSlot, nextRid>>
           ELSE /\ nextRid' = local.rid
                /\ IF Len(updated) = Len(local.items)
                   THEN /\ localSlot' = local.slot
                        /\ lastStore' = StoreCall("deleteResume", id, "", answer, "throw",
                                                  Str("Resume with ID not found"))
                   ELSE /\ localSlot' = Cache(updated)
                        /\ lastStore' = StoreCall("deleteResume", id, "", answer, "return",
                                                  [tag |-> "success"])
        /\ nextRid' <= MaxRecords
        /\ serverDb' = answer.db
        /\ UNCHANGED <<appVars, sortVars, serverVars>>

\* The mutant of MergePatch that returns the record as it was.
MergePatchDropped(record, name) == record

\* { ...existing[idx], ...patch }, for a patch of the name
MergePatch(record, name) == [record EXCEPT !.name = name]

updateResume(id, name, mode) ==
    LET answer == IF mode = "unreachable" THEN Rejected(serverDb)
                  ELSE ServerUpdateResume(serverDb, id, name, mode)
        local == readLocalResumes(localSlot, nextRid)
        existing == local.items
    IN  /\ IF tryFetchJson(answer)
           THEN /\ lastStore' = StoreCall("updateResume", id, name, answer, "return",
                                          answer.value)
                /\ UNCHANGED <<localSlot, nextRid>>
           ELSE /\ nextRid' = local.rid
                /\ IF id \notin IdsOf(existing)
                   THEN /\ localSlot' = local.slot
                        /\ lastStore' = StoreCall("updateResume", id, name, answer, "throw",
                                                  Str("Resume with ID not found"))
                   ELSE LET idx == CHOOSE k \in DOMAIN existing : existing[k].id = id
                        IN  /\ localSlot' = Cache([existing EXCEPT
                                                     ![idx] = MergePatch(existing[idx], name)])
                            /\ lastStore' = StoreCall("updateResume", id, name, answer,
                                                      "return",
                                                      MergePatch(existing[idx], name))
        /\ nextRid' <= MaxRecords
        /\ serverDb' = answer.db
        /\ UNCHANGED <<appVars, sortVars, serverVars>>

\* the browser on first visit and an empty collection; the App is left alone
InitStore ==
    /\ AppInit
    /\ backend = "part_003"
    /\ limits = [ops |-> 0]
    /\ StoreIdle
    /\ ServerUp
    /\ PageClosed

\* the store called with no ResumesPage on display
NextStore ==
    \/ \E mode \in RemoteModes : getResumes(mode) /\ UNCHANGED pageVars
    \/ \E name \in NameInputs, mode \in RemoteModes :
          saveResume(name, mode) /\ UNCHANGED pageVars
    \/ \E id \in RecordIds, mode \in RemoteModes :
          deleteResume(id, mode) /\ UNCHANGED pageVars
    \/ \E id \in RecordIds, name \in NameInputs, mode \in RemoteModes :
          updateResume(id, name, mode) /\ UNCHANGED pageVars

SpecStore == InitStore /\ [][NextStore]_vars

----------------------------------------------------------------------------
(* ResumesPage: the list fetched when the page mounts, and its Delete      *)
(* buttons, over the store above.                                          *)

\* fetchResumes, run once by the effect of the mount; getResumes does not throw
fetchResumes(mode) ==
    /\ ~pageLog.mounted
    /\ getResumes(mode)
    /\ resumes' = lastStore'.value.items
    /\ pageLog' = [mounted |-> TRUE, listed |-> lastStore'.value.items, deleted |-> {},
                   clicks |-> 0]
    /\ UNCHANGED deleting

\* the smallest number no suspended handleDelete has
FreshDelete ==
    CHOOSE n \in 1..(Cardinality(deleting) + 1) : n \notin {c.cid : c \in deleting}

\* handleDelete up to its await: the copy of the list, then the optimistic update
handleDelete(id) ==
    /\ pageLog.mounted
    /\ id \in IdsOf(resumes)
    /\ pageLog.clicks < MaxDeletes
    /\ pageLog' = [pageLog EXCEPT !.clicks = @ + 1]
    /\ deleting' = deleting \cup
          {[cid |-> FreshDelete, id |-> id, originalResumes |-> resumes]}
    /\ resumes' = SelectSeq(resumes, LAMBDA r : r.id # id)
    /\ UNCHANGED <<appVars, storeVars, sortVars, serverVars>>

\* handleDelete from its await on: deleteResume has resolved, or it has
\* thrown and the catch block puts the copy back
handleDeleteSettled(c, mode) ==
    /\ c \in deleting
    /\ deleteResume(c.id, mode)
    /\ deleting' = deleting \ {c}
    /\ IF lastStore'.outcome = "throw"
       THEN /\ resumes' = c.originalResumes
            /\ UNCHANGED pageLog
       ELSE /\ UNCHANGED resumes
            /\ pageLog' = [pageLog EXCEPT !.deleted = @ \cup {c.id}]

\* the records the backend and the browser cache may hold when the page opens
StoredRecords == {[i \in 1..n |-> SavedResume(i, "A")] : n \in 0..MaxShown}

InitPage ==
    /\ AppInit
    /\ backend = "part_003"
    /\ limits = [ops |-> 0]
    /\ ServerUp
    /\ PageClosed
    /\ serverDb \in StoredRecords
    /\ nextRid = Len(serverDb)
    /\ localSlot \in {JsNull} \cup
          {Cache(SortBySavedAtDesc(SubSeq(serverDb, 1, n))) : n \in 0..Len(serverDb)}
    /\ lastStore = JsNull

NextPage ==
    \/ \E mode \in RemoteModes : fetchResumes(mode)
    \/ \E id \in 1..MaxRecords : handleDelete(id)
    \/ \E c \in deleting, mode \in RemoteModes : handleDeleteSettled(c, mode)

SpecPage == InitPage /\ [][NextPage]_vars

----------------------------------------------------------------------------
(* Either backend started under any environment.                           *)

InitBoot ==
    /\ AppInit
    /\ backend \in {"server.js", "part_003"}
    /\ limits = [ops |-> 0]
    /\ StoreIdle
    /\ PageClosed
    /\ env \in [GEMINI_API_KEY : KeyValues, API_KEY : KeyValues, MONGODB_URI : UriValues]
    /\ server = [pc |-> "start", db |-> "none", served |-> 0]

NextBoot ==
    \/ ConnectMongo
    \/ CheckApiKey
    \/ Listen
    \/ \E connected \in BOOLEAN : MongoSettles(connected)
    \/ ServeRequest

SpecBoot == InitBoot /\ [][NextBoot]_vars

----------------------------------------------------------------------------
(* The job list on display: the sort controls of JobListingsPage and the   *)
(* sortedJobs it shows, over any collection the App may hold.              *)

SortKeys == {"analyzedAt", "title", "company"}

TitleInputs == {"acme", "Beta"}

\* String.prototype.toLowerCase on the titles and companies of the model
ToLowerCase(t) == IF t = "Beta" THEN "beta" ELSE t

\* the lower-cased texts of the model in the order of the < of strings
TextOrder == <<"", "acme", "beta", "company name">>
TextRank(t) == CHOOSE i \in DOMAIN TextOrder : TextOrder[i] = t

\* The mutant of TimeOrZero that values a missing analyzedAt as the latest time.
TimeOrLatest(job) ==
    IF job.analyzedAt # Undefined THEN job.analyzedAt ELSE MaxTime + 1

\* a.analyzedAt ? new Date(a.analyzedAt).getTime() : 0
TimeOrZero(job) ==
    IF job.analyzedAt # Undefined THEN job.analyzedAt ELSE 0

\* valA / valB of the comparator
SortValue(job, key) ==
    IF key = "analyzedAt" THEN TimeOrZero(job)
    ELSE TextRank(ToLowerCase(job[key]))

\* the comparator handed to Array.prototype.sort
CompareJobs(a, b, key, direction) ==
    IF SortValue(a, key) < SortValue(b, key)
    THEN (IF direction = "asc" THEN -1 ELSE 1)
    ELSE IF SortValue(a, key) > SortValue(b, key)
    THEN (IF direction = "asc" THEN 1 ELSE -1)
    ELSE 0

\* Array.prototype.sort is stable: x goes before the first job that must
\* follow it, behind its equals
RECURSIVE InsertJob(_, _, _, _)
InsertJob(sorted, x, key, direction) ==
    IF sorted = <<>> THEN <<x>>
    ELSE IF CompareJobs(Head(sorted), x, key, direction) > 0 THEN <<x>> \o sorted
    ELSE <<Head(sorted)>> \o InsertJob(Tail(sorted), x, key, direction)

RECURSIVE SortJobs(_, _, _)
SortJobs(js, key, direction) ==
    IF js = <<>> THEN <<>>
    ELSE InsertJob(SortJobs(SubSeq(js, 1, Len(js) - 1), key, direction),
                   js[Len(js)], key, direction)

\* sortedJobs: the useMemo over jobs, sortKey and sortDirection
sortedJobs == SortJobs(jobs, sortKey, sortDirection)

\* The mutant of DefaultDirection that keeps the direction in use.
DefaultDirectionKept(key) == sortDirection

\* key === 'analyzedAt' ? 'desc' : 'asc'
DefaultDirection(key) == IF key = "analyzedAt" THEN "desc" ELSE "asc"

\* handleSort: a click on a SortButton
handleSort(key) ==
    /\ IF key = sortKey
       THEN /\ sortDirection' = (IF sortDirection = "asc" THEN "desc" ELSE "asc")
            /\ UNCHANGED sortKey
       ELSE /\ sortKey' = key
            /\ sortDirection' = DefaultDirection(key)
    /\ UNCHANGED <<appVars, storeVars, serverVars, pageVars>>

\* the collections on display: newest first, as the add handlers build them,
\* each job with a title and with or without an analysis
JobLists ==
    UNION {{[i \in 1..n |->
                [NewJob(n + 1 - i) EXCEPT
                    !.title = f[i][1], !.analyzedAt = f[i][2],
                    !.analysis = IF f[i][2] = Undefined THEN JsNull ELSE Analysis1]] :
            f \in [1..n -> TitleInputs \X (0..MaxTime)]} : n \in 0..MaxListed}

InitSort ==
    /\ SortInit
    /\ jobs \in JobLists
    /\ resume = templateResumeContent
    /\ activeSuggestion = JsNull
    /\ calls = {}
    /\ nextId = Len(jobs)
    /\ now = MaxTime
    /\ used = 0
    /\ last = Quiet
    /\ backend = "server.js"
    /\ limits = [ops |-> 0]
    /\ StoreIdle
    /\ ServerUp
    /\ PageClosed

NextSort == \E key \in SortKeys : handleSort(key)

SpecSort == InitSort /\ [][NextSort]_vars

----------------------------------------------------------------------------
(* Properties of the App's analyze and fetch handlers, under Spec.         *)

\* the analyze calls outstanding for a job id
AnalyzeCallsOf(id) == {c \in calls : c.kind = "analyze" /\ c.id = id}

\* the last step settled a call of this kind for a job still in the collection
SettledOn(op, outcome) ==
    /\ last.op = op
    /\ last.result.outcome = outcome
    /\ HasJob(last.id)

C6_FailedFetchRestoresDescription ==
    SettledOn("fetchSettled", "throw") =>
        /\ ~JobOf(last.id).isFetching
        /\ JobOf(last.id).error.tag = "string"
        /\ JobOf(last.id).error.s # ""
        /\ JobOf(last.id).description = last.arg.job.description

\* C6 amended: after a failed description fetch the job is not fetching, its
\* error is a non-empty string and its description is what it was right
\* before the failure was handled: the failure writes no description, and
\* what the user typed during the call stays.
C6_FailedFetchWritesNoDescription ==
    SettledOn("fetchSettled", "throw") =>
        /\ ~JobOf(last.id).isFetching
        /\ JobOf(last.id).error.tag = "string"
        /\ JobOf(last.id).error.s # ""
        /\ JobOf(last.id).description = last.arg.before.s

\* a fetch failed on a job whose description the user edited during the call
C6_FailedAfterEdit ==
    /\ SettledOn("fetchSettled", "throw")
    /\ JobOf(last.id).description # last.arg.job.description
    /\ JobOf(last.id).description # <<>>

\* C8: when the service's answer carries no usable text (text missing or
\* blank), fetchJobDescriptionFromUrl throws, so the job gets an error and
\* keeps its description; it never returns the empty string.
C8_NoTextIsAFailure ==
    /\ (/\ last.op = "fetchSettled"
        /\ last.resp.net /\ Ok(last.resp)
        /\ last.resp.body.kind = "json"
        /\ \/ last.resp.body.value.tag # "text"
           \/ Trim(last.resp.body.value.text) = <<>>)
       => /\ last.result.outcome = "throw"
          /\ HasJob(last.id) =>
                /\ JobOf(last.id).error # JsNull
                /\ JobOf(last.id).description = last.arg.before.s
    /\ (last.op = "fetchSettled" /\ last.result.outcome = "return")
       => last.result.value.s # <<>>

\* C9: right after an analyze call succeeded, the job's analysis is the
\* document the service answered with, analyzedAt is the time of completion
\* and the job is not loading; an analysis the job had before is replaced.
C9_SuccessStoresAnalysis ==
    SettledOn("analyzeSettled", "return") =>
        /\ last.resp.body.kind = "json"
        /\ JobOf(last.id).analysis = last.resp.body.value
        /\ JobOf(last.id).analyzedAt = now
        /\ ~JobOf(last.id).isLoading

\* a second analysis replaced a different first one
C9_Reanalyzed ==
    /\ SettledOn("analyzeSettled", "return")
    /\ last.arg.analysis # JsNull
    /\ last.arg.analysis # JobOf(last.id).analysis

\* C10 as stated: after a failed analyze call the job's error is a non-empty
\* message, the job is not loading, and its Analyze button is enabled.
C10_FailureEnablesAnalyze ==
    SettledOn("analyzeSettled", "throw") =>
        /\ JobOf(last.id).error.tag = "string"
        /\ JobOf(last.id).error.s # ""
        /\ ~JobOf(last.id).isLoading
        /\ ~AnalyzeDisabled(JobOf(last.id))

\* C10 amended: after a failed analyze call the job's error is a non-empty
\* message and the job is not loading, so its Analyze button is enabled
\* provided the resume and the job's description are still not blank.
C10_FailureClearsLoading ==
    SettledOn("analyzeSettled", "throw") =>
        /\ JobOf(last.id).error.tag = "string"
        /\ JobOf(last.id).error.s # ""
        /\ ~JobOf(last.id).isLoading
        /\ ~isAnalyzeDisabled(JobOf(last.id)) => ~AnalyzeDisabled(JobOf(last.id))

\* the service answered an analyze call with status 500 and the button is
\* enabled again
C10_Failed500 ==
    /\ SettledOn("analyzeSettled", "throw")
    /\ last.resp.net /\ last.resp.status = 500
    /\ ~AnalyzeDisabled(JobOf(last.id))

----------------------------------------------------------------------------
(* Properties of accepting a suggestion, under SpecApply.                  *)

\* pat stands in s at the 0-based position i
OccursAt(s, pat, i) ==
    /\ i \in 0..(Len(s) - Len(pat))
    /\ SubSeq(s, i + 1, i + Len(pat)) = pat

\* the last step accepted a suggestion
Accepted == last.op = "applySuggestion"

\* C2: accepting a suggestion whose originalText occurs in the resume puts
\* suggestedRewrite, character for character, in place of the first
\* occurrence and changes nothing else, so the result is as long as the
\* resume, less originalText, plus suggestedRewrite.
C2_FirstOccurrenceReplacedLiterally ==
    Accepted =>
        LET before == last.arg.resume
            orig == last.arg.suggestion.originalText
            rewrite == last.arg.suggestion.suggestedRewrite
        IN  \A i \in 0..Len(before) :
                (OccursAt(before, orig, i) /\ \A j \in 0..(i - 1) : ~OccursAt(before, orig, j))
                => /\ resume = SubSeq(before, 1, i) \o rewrite
                                  \o SubSeq(before, i + Len(orig) + 1, Len(before))
                   /\ Len(resume) = Len(before) - Len(orig) + Len(rewrite)

\* C3: accepting a suggestion whose originalText occurs nowhere in the resume
\* leaves the resume as it was, and the modal closes as after any accept.
C3_AbsentTextChangesNothing ==
    Accepted =>
        LET before == last.arg.resume
            orig == last.arg.suggestion.originalText
        IN  (\A i \in 0..Len(before) : ~OccursAt(before, orig, i))
            => resume = before /\ activeSuggestion = JsNull

\* a suggestion with a rewrite was accepted on a resume that lacks its
\* originalText
C3_AcceptedAbsent ==
    /\ Accepted
    /\ \A i \in 0..Len(last.arg.resume) :
          ~OccursAt(last.arg.resume, last.arg.suggestion.originalText, i)
    /\ last.arg.resume # <<>>
    /\ last.arg.suggestion.suggestedRewrite # <<>>

----------------------------------------------------------------------------
(* Properties of the resume store, under SpecStore.                        *)

\* the records a slot holds
ItemsOf(slot) == IF slot = JsNull THEN <<>> ELSE slot.items

\* the last call of the store was op and its remote request failed: fetch()
\* rejected, or the answer's status was not 2xx
RemoteFailed(op) ==
    /\ lastStore # JsNull
    /\ lastStore.op = op
    /\ ~lastStore.net \/ lastStore.status < 200 \/ lastStore.status > 299

\* C4: after a saveResume, deleteResume or updateResume whose remote request
\* failed, the local cache shows the mutation: the saved record is in it, the
\* deleted id is not, and the updated record (when the cache had it) carries
\* the patch.
C4_CacheReflectsFailedMutation ==
    /\ RemoteFailed("saveResume") =>
          \E i \in DOMAIN ItemsOf(localSlot) :
              /\ ItemsOf(localSlot)[i].id = lastStore.id
              /\ ItemsOf(localSlot)[i].name = lastStore.name
    /\ RemoteFailed("deleteResume") =>
          lastStore.id \notin IdsOf(ItemsOf(localSlot))
    /\ (RemoteFailed("updateResume") /\ lastStore.id \in IdsOf(ItemsOf(lastStore.slotBefore))) =>
          \E i \in DOMAIN ItemsOf(localSlot) :
              /\ ItemsOf(localSlot)[i].id = lastStore.id
              /\ ItemsOf(localSlot)[i].name = lastStore.name

\* C5: deleteResume of an id that no record has, in the backend or in the
\* cache, throws the not-found error and leaves the backend's collection and
\* the local slot as they were.
C5_DeleteOfMissingIdFails ==
    (/\ lastStore # JsNull
     /\ lastStore.op = "deleteResume"
     /\ lastStore.id \notin IdsOf(lastStore.dbBefore)
     /\ lastStore.id \notin IdsOf(ItemsOf(lastStore.slotBefore)))
    => /\ lastStore.outcome = "throw"
       /\ serverDb = lastStore.dbBefore
       /\ localSlot = lastStore.slotBefore

\* C17: getResumes never fails; what it returns is sorted by savedAt, newest
\* first, and holds the records of the backend when the remote read was
\* answered with a 2xx status, those of the local cache otherwise.
C17_ListNewestFirst ==
    (lastStore # JsNull /\ lastStore.op = "getResumes") =>
        LET got == lastStore.value.items
        IN  /\ lastStore.outcome = "return"
            /\ \A i, k \in DOMAIN got : i < k => got[i].savedAt >= got[k].savedAt
            /\ IF RemoteFailed("getResumes")
               THEN /\ Len(got) = Len(ItemsOf(localSlot))
                    /\ IdsOf(got) = IdsOf(ItemsOf(localSlot))
               ELSE /\ Len(got) = Len(serverDb)
                    /\ IdsOf(got) = IdsOf(serverDb)

\* the list was read from a backend holding two records, by a browser whose
\* cache a fallback has filled
C17_ListedTwoRemote ==
    /\ lastStore # JsNull /\ lastStore.op = "getResumes"
    /\ lastStore.net /\ lastStore.status = 200
    /\ Len(lastStore.value.items) = 2
    /\ localSlot # JsNull

\* the template records a slot holds
TemplatesIn(slot) ==
    {i \in DOMAIN ItemsOf(slot) : ItemsOf(slot)[i].name = "General Resume Template"}

\* C18: the call that first reads the empty local slot seeds exactly one
\* template record; a slot that holds an array is never seeded again, whatever
\* the fallback calls made and even when the template has been deleted, and a
\* getResumes that reads it leaves it as it is.
C18_SeededOnce ==
    lastStore # JsNull =>
        /\ (lastStore.slotBefore = JsNull /\ localSlot # JsNull) =>
              /\ Cardinality(TemplatesIn(localSlot)) = 1
              /\ Len(ItemsOf(localSlot)) <= 2
              /\ Len(ItemsOf(localSlot)) = 2 => lastStore.op = "saveResume"
        /\ lastStore.slotBefore # JsNull =>
              /\ localSlot # JsNull
              /\ Cardinality(TemplatesIn(localSlot)) <=
                    Cardinality(TemplatesIn(lastStore.slotBefore))
              /\ lastStore.op = "getResumes" => localSlot = lastStore.slotBefore
        /\ Cardinality(TemplatesIn(localSlot)) <= 1

\* the cache was read by a fallback getResumes after its template was deleted
C18_ReadAfterTemplateDeleted ==
    /\ lastStore # JsNull /\ lastStore.op = "getResumes"
    /\ ~lastStore.net
    /\ lastStore.slotBefore # JsNull
    /\ TemplatesIn(localSlot) = {}

\* C19: an updateResume whose request failed acts on the cache: when a cached
\* record has the id, that record takes the patch and keeps its other fields
\* and its place, every other record is kept, and the merged record is
\* returned; when none has it the call throws and the cache holds the records
\* it held before (after the template, when the slot was empty).
C19_LocalUpdateMerges ==
    (lastStore # JsNull /\ lastStore.op = "updateResume" /\ RemoteFailed("updateResume")) =>
        LET before == ItemsOf(lastStore.slotBefore)
            after  == ItemsOf(localSlot)
        IN  IF lastStore.id \in IdsOf(before)
            THEN /\ lastStore.outcome = "return"
                 /\ lastStore.value.id = lastStore.id
                 /\ lastStore.value.name = lastStore.name
                 /\ Len(after) = Len(before)
                 /\ \A i \in DOMAIN before :
                       IF before[i].id = lastStore.id
                       THEN /\ after[i] = lastStore.value
                            /\ after[i].savedAt = before[i].savedAt
                       ELSE after[i] = before[i]
            ELSE /\ lastStore.outcome = "throw"
                 /\ lastStore.slotBefore # JsNull => localSlot = lastStore.slotBefore
                 /\ lastStore.slotBefore = JsNull =>
                       /\ Len(after) = 1
                       /\ after[1].name = "General Resume Template"

\* a record of a cache of two was renamed after the request failed
C19_RenamedInCacheOfTwo ==
    /\ lastStore # JsNull /\ lastStore.op = "updateResume"
    /\ RemoteFailed("updateResume")
    /\ lastStore.outcome = "return"
    /\ Len(ItemsOf(lastStore.slotBefore)) = 2
    /\ localSlot # lastStore.slotBefore

\* C20: a step changes the description of a job of the collection only when
\* it is a user's edit of the description or the completion of a description
\* fetch that succeeded, which writes the text the fetcher returned; no failed
\* fetch and no other step writes a description.
C20_DescriptionWrittenByFetcherOrUser ==
    [][\A i \in DOMAIN jobs, k \in DOMAIN jobs' :
          (jobs[i].id = jobs'[k].id /\ jobs[i].description # jobs'[k].description) =>
              \/ \E text \in DescriptionInputs : EditDescription(jobs[i].id, text)
              \/ /\ last'.op \in {"fetchSettled", "importSettled"}
                 /\ last'.id = jobs[i].id
                 /\ last'.result.outcome = "return"
                 /\ jobs'[k].description = last'.result.value.s]_vars

\* C22: a request goes upstream only in a step of the user: every call that
\* appears among the outstanding ones appears alone, in a step that is a click
\* on Fetch or on Analyze for its job or the import of a listing, and that
\* counts as one operation of the user; a step that settles a call, failed or
\* not, starts none.
C22_NoAutomaticRetry ==
    [][/\ \A c \in calls' \ calls :
             /\ calls' = calls \cup {c}
             /\ used' = used + 1
             /\ \/ c.kind = "fetch" /\ ClickFetch(c.id)
                \/ c.kind = "analyze" /\ ClickAnalyze(c.id)
                \/ c.kind = "import" /\ \E l \in Listings : handleAddJobFromSearch(l)
       /\ last'.op \in {"fetchSettled", "analyzeSettled", "importSettled"} =>
             /\ calls' \subseteq calls
             /\ Cardinality(calls') = Cardinality(calls) - 1]_vars

\* a fetch has failed, nothing is outstanding, and the user may still act
C22_FailedAndQuiet ==
    /\ last.op = "fetchSettled"
    /\ last.result.outcome = "throw"
    /\ HasJob(last.id)
    /\ calls = {}
    /\ used < limits.ops

\* the fields of a job that the completion of an analyze call may write
AnalyzeWrites == {"analysis", "analyzedAt", "isLoading", "error"}

\* C27: the step that completes a failed analyze call writes the error and
\* isLoading = false into its job and nothing else: an analysis the job had,
\* and its analyzedAt, stay, so the job then holds both the old analysis and
\* the new error; no other job changes.
C27_FailedReanalysisKeepsAnalysis ==
    [][(last'.op = "analyzeSettled" /\ last'.result.outcome = "throw") =>
          /\ Len(jobs') = Len(jobs)
          /\ \A i \in DOMAIN jobs :
                IF jobs[i].id = last'.id
                THEN /\ jobs'[i].analysis = jobs[i].analysis
                     /\ jobs'[i].analyzedAt = jobs[i].analyzedAt
                     /\ jobs'[i].error = Str(last'.result.message)
                     /\ ~jobs'[i].isLoading
                     /\ \A f \in DOMAIN jobs[i] \ {"error", "isLoading"} :
                           jobs'[i][f] = jobs[i][f]
                ELSE jobs'[i] = jobs[i]]_vars

\* a second analyze call of an analyzed job has failed: the job holds the
\* analysis of the first and the error of the second
C27_ErrorBesideAnalysis ==
    /\ SettledOn("analyzeSettled", "throw")
    /\ last.arg.analysis # JsNull
    /\ JobOf(last.id).analysis = last.arg.analysis
    /\ JobOf(last.id).analyzedAt # Undefined
    /\ JobOf(last.id).error # JsNull

\* C28: the step that completes an analyze call, either way, writes only
\* analysis, analyzedAt, isLoading and error of its job: url, description,
\* isFetching, title and company are as they were just before, edits made
\* while the call was outstanding included; no other job changes.
C28_CompletionWritesOnlyItsFields ==
    [][last'.op = "analyzeSettled" =>
          /\ Len(jobs') = Len(jobs)
          /\ \A i \in DOMAIN jobs :
                IF jobs[i].id = last'.id
                THEN \A f \in DOMAIN jobs[i] \ AnalyzeWrites : jobs'[i][f] = jobs[i][f]
                ELSE jobs'[i] = jobs[i]]_vars

\* an analyze call has succeeded for a job whose description was edited
\* while the call was outstanding: the job holds the edited text
C28_EditSurvivedCompletion ==
    /\ SettledOn("analyzeSettled", "return")
    /\ JobOf(last.id).description # last.arg.description
    /\ JobOf(last.id).analysis # JsNull

----------------------------------------------------------------------------
(* Properties of the handlers called directly, under SpecHandlers.         *)

\* C25: every analyze call that starts is for a job of the collection, with a
\* resume and a description that are not blank; while the resume or a job's
\* description is empty or only whitespace no step sets that job's isLoading;
\* and a call of handleAnalyzeJob that returns early, which is what it does
\* for an id of no job and for blank texts, starts no call and leaves every
\* job as it was, error included.
C25_BlankInputsStartNothing ==
    [][/\ \A c \in calls' \ calls :
             c.kind = "analyze" =>
                 /\ HasJob(c.id)
                 /\ Trim(resume) # <<>>
                 /\ Trim(JobOf(c.id).description) # <<>>
       /\ \A i \in DOMAIN jobs, k \in DOMAIN jobs' :
             (/\ jobs[i].id = jobs'[k].id
              /\ Trim(resume) = <<>> \/ Trim(jobs[i].description) = <<>>
              /\ ~jobs[i].isLoading)
             => ~jobs'[k].isLoading
       /\ last'.op = "analyzeSkipped" =>
             /\ \/ ~HasJob(last'.id)
                \/ Trim(resume) = <<>>
                \/ Trim(JobOf(last'.id).description) = <<>>
             /\ jobs' = jobs
             /\ calls' = calls]_vars

\* handleAnalyzeJob has returned early, over a resume of whitespace, for a job
\* that has a description and carries an error
C25_SkippedWithError ==
    /\ last.op = "analyzeSkipped"
    /\ HasJob(last.id)
    /\ resume # <<>> /\ Trim(resume) = <<>>
    /\ Trim(JobOf(last.id).description) # <<>>
    /\ JobOf(last.id).error # JsNull

Fetching(id) == HasJob(id) /\ JobOf(id).isFetching
Loading(id) == HasJob(id) /\ JobOf(id).isLoading

\* C26: when every call settles, a job that is fetching is later not fetching
\* or gone, and a job that is loading is later not loading or gone, however
\* the calls for the job were started and however many overlap.
C26_FlagsComeDown ==
    \A id \in 1..MaxLiveOps :
        /\ Fetching(id) ~> ~Fetching(id)
        /\ Loading(id) ~> ~Loading(id)

\* a fetch started for a job that was fetching already has settled as the last
\* call outstanding, and the job is at rest
C26_OverlappingFetchesSettled ==
    /\ last.op = "fetchSettled"
    /\ last.arg.job.isFetching
    /\ calls = {}
    /\ HasJob(last.id)
    /\ ~JobOf(last.id).isFetching
    /\ ~JobOf(last.id).isLoading

----------------------------------------------------------------------------
(* Properties of accepting a suggestion twice, under SpecReapply.          *)

\* the suggestion accepted last is open again, over the resume its acceptance
\* left
OpenAgain ==
    /\ Accepted
    /\ activeSuggestion # JsNull
    /\ activeSuggestion = last.arg.suggestion

\* C23: accepting a suggestion again, after its first acceptance, leaves the
\* resume as the first acceptance left it, for every resume and suggestion.
C23_SecondAcceptChangesNothing ==
    [][(OpenAgain /\ handleApplySuggestion) => resume' = resume]_vars

\* C23, amended: accepting a suggestion again leaves the resume as the first
\* acceptance left it whenever originalText no longer occurs in that resume.
C23_SecondAcceptOfReplacedTextChangesNothing ==
    [][(/\ OpenAgain
        /\ \A i \in 0..Len(resume) : ~OccursAt(resume, activeSuggestion.originalText, i)
        /\ handleApplySuggestion) => resume' = resume]_vars

\* the suggestion is open again after its acceptance replaced its text, which
\* is gone from the resume
C23_OpenAgainAfterReplacement ==
    /\ OpenAgain
    /\ resume # last.arg.resume
    /\ activeSuggestion.suggestedRewrite # <<>>
    /\ \A i \in 0..Len(resume) : ~OccursAt(resume, activeSuggestion.originalText, i)

----------------------------------------------------------------------------
(* Properties of the working resume, under SpecApp.                        *)

\* C30: a step changes the working resume only when it is an edit of the
\* resume box, the load of a saved resume or the acceptance of a suggestion;
\* every handler of the jobs, every settled call and the closing of the
\* modal leave it as it is; and the step that accepts or closes an open
\* suggestion leaves none active.
C30_ResumeWriters ==
    [][/\ resume' # resume =>
             \/ \E t \in ResumeInputs : EditResume(t)
             \/ \E content \in LoadInputs : handleLoadResume(content)
             \/ handleApplySuggestion
       /\ (activeSuggestion # JsNull /\ (handleApplySuggestion \/ CloseSuggestion)) =>
             activeSuggestion' = JsNull
       /\ CloseSuggestion => resume' = resume
       /\ last'.op \in {"fetchSettled", "analyzeSettled", "importSettled",
                        "fetchSkipped", "analyzeSkipped"} => resume' = resume]_vars

\* a suggestion of a job's analysis has been accepted and has changed the
\* resume; no suggestion is active
C30_AcceptedListedSuggestion ==
    /\ last.op = "applySuggestion"
    /\ resume # last.arg.resume
    /\ activeSuggestion = JsNull
    /\ jobs # <<>>

----------------------------------------------------------------------------
(* Properties of the resumes page, under SpecPage.                         *)

\* C29: with no delete call outstanding, the page displays exactly the
\* records it listed whose delete call did not succeed: a failed delete has
\* put its record back, and no record whose delete succeeded is on display.
C29_ShownIffNotDeleted ==
    (pageLog.mounted /\ deleting = {}) =>
        IdsOf(resumes) = IdsOf(pageLog.listed) \ pageLog.deleted

----------------------------------------------------------------------------
(* Properties of the backend's start, under SpecBoot.                      *)

\* neither GEMINI_API_KEY nor API_KEY holds a key
NoKey == ~EnvTruthy(env.GEMINI_API_KEY) /\ ~EnvTruthy(env.API_KEY)

\* C21: a backend started with no API key never listens and never answers a
\* request: once past the key check it has exited; and a process exits for no
\* other reason, a missing MONGODB_URI or a failed connection included.
C21_NoKeyNoService ==
    /\ NoKey => /\ server.pc \in {"start", "models", "exited"}
                /\ server.served = 0
    /\ server.pc = "exited" => NoKey

\* part_003 exited for want of a key while its database connection was pending
C21_ExitedWhileConnecting ==
    /\ NoKey
    /\ server.pc = "exited"
    /\ server.db = "connecting"

----------------------------------------------------------------------------
(* Properties of analyzeJobFit, under SpecClient.                          *)

\* C7: when the answer to an analyze call has a status that is not 2xx, an
\* empty body or a body that is not JSON, analyzeJobFit throws, and the job
\* keeps the analysis it had.
C7_BadAnswerIsAFailure ==
    (/\ last.op = "analyzeSettled"
     /\ last.resp.net
     /\ \/ ~Ok(last.resp)
        \/ last.resp.body.kind = "empty"
        \/ last.resp.body.kind = "notjson")
    => /\ last.result.outcome = "throw"
       /\ HasJob(last.id) => JobOf(last.id).analysis = last.arg.analysis

----------------------------------------------------------------------------
(* Properties of the job collection as a whole, under Spec.                *)

\* C12: when a fetch or analyze call completes, with success or failure, for
\* a job that has been removed meanwhile, the job collection stays as it is:
\* the job does not come back and no other job changes.
C12_StaleCompletionDropped ==
    [][\A c \in calls :
          (~HasJob(c.id) /\ calls' = calls \ {c}) => jobs' = jobs]_vars

\* a call completed for a job removed meanwhile, with another job in the
\* collection
C12_CompletedAfterRemoval ==
    /\ last.op \in {"analyzeSettled", "fetchSettled", "importSettled"}
    /\ ~HasJob(last.id)
    /\ jobs # <<>>

\* C13: a step that starts or completes a call for a job, or edits a job,
\* changes no field of any other job; and a job whose own fields allow a
\* fetch or an analysis can start it whatever the flags of the other jobs.
C13_JobsAreIndependent ==
    /\ [][(/\ Len(jobs') = Len(jobs)
           /\ \A i \in DOMAIN jobs : jobs'[i].id = jobs[i].id)
          => LET touched == {jobs[i].id : i \in {k \in DOMAIN jobs : jobs'[k] # jobs[k]}}
             IN  /\ Cardinality(touched) <= 1
                 /\ \A c \in (calls' \ calls) \cup (calls \ calls') : touched \subseteq {c.id}]_vars
    /\ [](\A i \in DOMAIN jobs :
            /\ (/\ used < limits.ops
                /\ isValidUrl(jobs[i].url)
                /\ ~jobs[i].isFetching) => ENABLED ClickFetch(jobs[i].id)
            /\ (/\ used < limits.ops
                /\ ~isAnalyzeDisabled(jobs[i])
                /\ ~jobs[i].isLoading) => ENABLED ClickAnalyze(jobs[i].id))

\* an analysis was started on one job while another job is fetching
C13_StartedBesideBusyJob ==
    \E i, k \in DOMAIN jobs :
        /\ i # k
        /\ jobs[i].isFetching
        /\ jobs[k].isLoading /\ ~jobs[k].isFetching
        /\ \E c \in calls : c.kind = "analyze" /\ c.id = jobs[k].id /\ c.job.id = jobs[k].id

\* what handleAddJob leaves around the job it creates: one more job, at the
\* head, with an id no job had, the others as they were and in their order
AddedAtHead ==
    /\ Len(jobs') = Len(jobs) + 1
    /\ Tail(jobs') = jobs
    /\ \A i \in DOMAIN jobs : jobs[i].id # Head(jobs').id
    /\ Head(jobs').url = <<>>
    /\ Head(jobs').description = <<>>
    /\ ~Head(jobs').isFetching
    /\ ~Head(jobs').isLoading
    /\ Head(jobs').error = JsNull
    /\ Head(jobs').analysis = JsNull

\* C16 as stated: handleAddJob puts exactly one new job at the head, with a
\* fresh id, empty url, title, company and description, flags false, error
\* and analysis null, and leaves the existing jobs and their order alone.
C16_AddJobCreatesEmptyJob ==
    [][handleAddJob =>
          /\ AddedAtHead
          /\ Head(jobs').title = ""
          /\ Head(jobs').company = ""]_vars

\* C16 amended: as stated, but the title and the company of the new job are
\* the placeholders 'New Job Listing' and 'Company Name'.
C16_AddJobCreatesPlaceholderJob ==
    [][handleAddJob =>
          /\ AddedAtHead
          /\ Head(jobs').title = "New Job Listing"
          /\ Head(jobs').company = "Company Name"]_vars

\* a job was added ahead of a listing taken in earlier
C16_AddedBeforeListing ==
    /\ Len(jobs) >= 2
    /\ jobs[1] = NewJob(jobs[1].id)
    /\ jobs[2].url # <<>>
    /\ nextId = jobs[1].id

----------------------------------------------------------------------------
(* Properties of overlapping calls, under SpecHandlers.                    *)

\* C11: when an analyze call that was started while another one for the same
\* job was outstanding resolves last, the job's analysis, analyzedAt and
\* error are those of this last response alone: after a success no error of
\* the earlier response remains, after a failure no analysis of the earlier
\* response remains.
C11_LastResponseWins ==
    (/\ SettledOn("analyzeSettled", last.result.outcome)
     /\ last.arg.isLoading
     /\ AnalyzeCallsOf(last.id) = {})
    => IF last.result.outcome = "return"
       THEN /\ JobOf(last.id).analysis = last.result.value
            /\ JobOf(last.id).analyzedAt = now
            /\ JobOf(last.id).error = JsNull
       ELSE /\ JobOf(last.id).error = Str(last.result.message)
            /\ JobOf(last.id).analysis = last.arg.analysis
            /\ JobOf(last.id).analyzedAt = last.arg.analyzedAt

----------------------------------------------------------------------------
(* Properties of the list on display, under SpecSort.                      *)

\* C14: sorted by analyzedAt, descending, the list shows every job of the
\* collection once, no job without analyzedAt before a job with one, and the
\* analyzed jobs from the most recent to the oldest.
C14_UnanalyzedLast ==
    (sortKey = "analyzedAt" /\ sortDirection = "desc") =>
        LET shown == sortedJobs
        IN  /\ Len(shown) = Len(jobs)
            /\ {shown[i].id : i \in DOMAIN shown} = {jobs[i].id : i \in DOMAIN jobs}
            /\ \A i, k \in DOMAIN shown :
                  i < k =>
                    /\ shown[i].analyzedAt = Undefined => shown[k].analyzedAt = Undefined
                    /\ shown[k].analyzedAt # Undefined =>
                          shown[i].analyzedAt >= shown[k].analyzedAt

\* sorted by analyzedAt descending, a collection that holds an unanalyzed job
\* ahead of two analyzed ones, the older first, is shown in the reverse order
C14_Reordered ==
    /\ sortKey = "analyzedAt" /\ sortDirection = "desc"
    /\ Len(jobs) = 3
    /\ jobs[1].analyzedAt = Undefined
    /\ jobs[2].analyzedAt # Undefined
    /\ jobs[3].analyzedAt > jobs[2].analyzedAt
    /\ sortedJobs = <<jobs[3], jobs[2], jobs[1]>>

\* C24: sorted by analyzedAt, in either direction, the list on display holds
\* every unanalyzed job below every analyzed one.
C24_UnanalyzedLastInBothDirections ==
    sortKey = "analyzedAt" =>
        LET shown == sortedJobs
        IN  \A i, k \in DOMAIN shown :
                (i < k /\ shown[i].analyzedAt = Undefined) => shown[k].analyzedAt = Undefined

\* C15: the sort state starts at (analyzedAt, desc); a click on the key in
\* use flips the direction and keeps the key; a click on another key takes
\* that key with its default direction, desc for analyzedAt and asc for title
\* and company, whatever the direction was.
C15_SortState ==
    /\ SortInit
    /\ [][IF sortKey' = sortKey
          THEN sortDirection' # sortDirection /\ sortDirection' \in {"asc", "desc"}
          ELSE sortDirection' = (IF sortKey' = "analyzedAt" THEN "desc" ELSE "asc")]_sortVars

\* the title key was clicked twice in a row on a list of jobs
C15_TitleDescending ==
    /\ sortKey = "title"
    /\ sortDirection = "desc"
    /\ Len(jobs) >= 2

====
